---- MODULE Spec2Model ----
(***************************************************************************)
(* Model of the two Meridian container services:                           *)
(*   samples/S7.Meridian/containers/pandoc/app.py     (POST /render)       *)
(*   samples/S7.Meridian/containers/tesseract/app.py  (POST /ocr)          *)
(*                                                                         *)
(* Text is a sequence of one-character strings.  Characters that TLA+      *)
(* cannot write as an escape are named ("VT" is \v, "NEL" is \x85).        *)
(* Floating point arithmetic is modelled by exact rationals <<num, den>>.  *)
(***************************************************************************)
EXTENDS Integers, Sequences, FiniteSets, TLC

\* ------------------------------------------------------------------ bounds
MaxPieces == 3      \* pieces concatenated into one markdown text
MaxTokens == 3      \* per-token entries the engine reports for one page
MaxPages  == 3      \* page images the converter returns

\* ------------------------------------------------------- Optional[...]
None == {}
Some(x) == {x}

\* ------------------------------------------------------- str primitives
UpperChars == <<"A","B","C","D","E","F","G","H","I","J","K","L","M",
                "N","O","P","Q","R","S","T","U","V","W","X","Y","Z">>
LowerChars == <<"a","b","c","d","e","f","g","h","i","j","k","l","m",
                "n","o","p","q","r","s","t","u","v","w","x","y","z">>

\* str.lower() on one character
LowerChar(c) ==
    IF \E i \in 1..26 : UpperChars[i] = c
    THEN LowerChars[CHOOSE i \in 1..26 : UpperChars[i] = c]
    ELSE c

\* str.lower()
lower(s) == [i \in 1..Len(s) |-> LowerChar(s[i])]

\* needle in hay
contains(hay, needle) ==
    \E i \in 0..(Len(hay) - Len(needle)) :
        SubSeq(hay, i + 1, i + Len(needle)) = needle

\* the line boundaries of str.splitlines()
LineBreaks == {"\n", "\r", "VT", "\f", "FS", "GS", "RS", "NEL", "LSEP", "PSEP"}

\* the characters str.strip() removes (the Latin-1 ones and the two separators)
Whitespace == LineBreaks \cup {" ", "\t", "US", "NBSP"}

RECURSIVE SplitFrom(_, _, _, _)
SplitFrom(s, i, cur, acc) ==
    IF i > Len(s)
    THEN IF cur # <<>> THEN Append(acc, cur) ELSE acc
    ELSE IF s[i] \in LineBreaks
         THEN IF s[i] = "\r" /\ i < Len(s) /\ s[i + 1] = "\n"
              THEN SplitFrom(s, i + 2, <<>>, Append(acc, cur))
              ELSE SplitFrom(s, i + 1, <<>>, Append(acc, cur))
         ELSE SplitFrom(s, i + 1, Append(cur, s[i]), acc)

\* str.splitlines()
splitlines(s) == SplitFrom(s, 1, <<>>, <<>>)

RECURSIVE lstrip(_)
lstrip(s) ==
    IF s # <<>> /\ Head(s) \in Whitespace THEN lstrip(Tail(s)) ELSE s

RECURSIVE rstrip(_)
rstrip(s) ==
    IF s # <<>> /\ s[Len(s)] \in Whitespace
    THEN rstrip(SubSeq(s, 1, Len(s) - 1))
    ELSE s

\* str.strip()
strip(s) == rstrip(lstrip(s))

RECURSIVE join(_, _)
\* sep.join(parts)
join(sep, parts) ==
    IF parts = <<>> THEN <<>>
    ELSE IF Len(parts) = 1 THEN parts[1]
    ELSE parts[1] \o sep \o join(sep, Tail(parts))

RECURSIVE Flatten(_)
Flatten(ps) == IF ps = <<>> THEN <<>> ELSE Head(ps) \o Flatten(Tail(ps))

\* --------------------------------------------------- pandoc/app.py
BLOCKED_TOKENS ==
    << <<"\\","w","r","i","t","e","1","8">>,
       <<"\\","i","n","p","u","t">>,
       <<"\\","i","n","c","l","u","d","e">>,
       <<"\\","o","p","e","n","o","u","t">>,
       <<"\\","r","e","a","d">>,
       <<"\\","c","a","t","c","o","d","e">> >>

\* IsBlockedLine comparing without .lower()
IsBlockedLineCaseSensitive(line) ==
    \E t \in 1..Len(BLOCKED_TOKENS) : contains(line, BLOCKED_TOKENS[t])

\* any(token.lower() in line.lower() for token in BLOCKED_TOKENS)
IsBlockedLine(line) ==
    \E t \in 1..Len(BLOCKED_TOKENS) :
        contains(lower(line), lower(BLOCKED_TOKENS[t]))

RECURSIVE SanitizeLoop(_, _)
SanitizeLoop(lines, sanitized_lines) ==
    IF lines = <<>> THEN sanitized_lines
    ELSE IF IsBlockedLine(Head(lines))
         THEN SanitizeLoop(Tail(lines), sanitized_lines)
         ELSE SanitizeLoop(Tail(lines), Append(sanitized_lines, Head(lines)))

sanitize_markdown(markdown) ==
    join(<<"\n">>, SanitizeLoop(splitlines(markdown), <<>>))

\* ------------------------------------------------------------ inputs
\* fragments a markdown text is assembled from
Pieces ==
    { <<"\\","w","r","i","t","e","1","8">>,
      <<"\\","i","n","p","u","t">>,
      <<"\\","I","n","c","l","u","d","e">>,
      <<"\\","o","p","e","n","o","u","t">>,
      <<"\\","R","e","A","d">>,
      <<"\\","c","a","t","c","o","d","e">>,
      <<"\\","r","e">>,
      <<"a","d">>,
      <<"x">>,
      <<" ">>,
      <<"\n">>,
      <<"\r">>,
      <<"\f">> }

Texts(ps, n) == { Flatten(q) : q \in UNION { [1..k -> ps] : k \in 0..n } }

\* fragments a /render request body is assembled from
RenderPieces ==
    { <<"\\","w","r","i","t","e","1","8">>,
      <<"\\","R","E","A","D">>,
      <<"{","r","m","}">>,
      <<"#">>,
      <<" ">>,
      <<"\n">> }

ContentHashes == {None, Some("sha256:ab12")}

\* file contents the document engine may leave in the output file
PdfOutputs == { <<37, 80, 68, 70>>, <<37, 80, 68, 70, 45>>, <<37, 80, 68, 70, 45, 49>> }

\* str(exc) of the exceptions the document engine may raise
EngineMessages == {"Pandoc died with exitcode 43 during conversion", "Invalid output format"}

\* str(exc) of the OSError a file or process operation may raise
OsMessages == {"[Errno 5] Input/output error"}

\* ------------------------------------------------------------ base64
B64Alphabet ==
    <<"A","B","C","D","E","F","G","H","I","J","K","L","M",
      "N","O","P","Q","R","S","T","U","V","W","X","Y","Z",
      "a","b","c","d","e","f","g","h","i","j","k","l","m",
      "n","o","p","q","r","s","t","u","v","w","x","y","z",
      "0","1","2","3","4","5","6","7","8","9","+","/">>

B64(i) == B64Alphabet[i + 1]

RECURSIVE b64encode(_)
\* base64.b64encode(pdf_bytes).decode("utf-8")
b64encode(bytes) ==
    IF bytes = <<>> THEN <<>>
    ELSE IF Len(bytes) = 1
    THEN << B64(bytes[1] \div 4), B64((bytes[1] % 4) * 16), "=", "=" >>
    ELSE IF Len(bytes) = 2
    THEN << B64(bytes[1] \div 4),
            B64((bytes[1] % 4) * 16 + bytes[2] \div 16),
            B64((bytes[2] % 16) * 4), "=" >>
    ELSE << B64(bytes[1] \div 4),
            B64((bytes[1] % 4) * 16 + bytes[2] \div 16),
            B64((bytes[2] % 16) * 4 + bytes[3] \div 64),
            B64(bytes[3] % 64) >>
         \o b64encode(SubSeq(bytes, 4, Len(bytes)))

VARIABLES
    smarkdown,      \* sanitize_markdown: the argument
    sresult,        \* sanitize_markdown: the return value
    spc,            \* sanitize_markdown: "call" | "returned"
    endpoint,       \* the endpoint the request was sent to
    rpc,            \* render: position of the handler
    markdown,       \* render: request.markdown
    content_hash,   \* render: request.content_hash
    sanitized,      \* render: local sanitized
    tmpExists,      \* render: the NamedTemporaryFile exists on disk
    tmpContent,     \* render: bytes in the temporary file
    engineCalls,    \* render: calls of pypandoc.convert_text
    rexc,           \* render: exception raised inside the try block, <<type, str(exc)>>
    rresponses,     \* render: responses sent for the request
    cdata,          \* _estimate_confidence: data["conf"] reported by the engine
    cresult,        \* _estimate_confidence: the return value
    cpc,            \* _estimate_confidence: "call" | "returned"
    opc,            \* ocr: position of the handler
    content_type,   \* ocr: file.content_type
    payload,        \* ocr: bytes of the upload
    converterCalls, \* ocr: calls of convert_from_bytes
    oexc,           \* ocr: exception raised by convert_from_bytes, <<str(exc)>>
    images,         \* ocr: number of page images returned by the converter
    text_segments,  \* ocr: local text_segments
    confidences,    \* ocr: local confidences
    stringCalls,    \* ocr: calls of pytesseract.image_to_string
    dataCalls,      \* ocr: calls of pytesseract.image_to_data
    oresponses      \* ocr: responses sent for the request

sanVars == <<smarkdown, sresult, spc>>
renVars == <<rpc, markdown, content_hash, sanitized, tmpExists, tmpContent,
             engineCalls, rexc, rresponses>>
confVars == <<cdata, cresult, cpc>>
ocrVars == <<opc, content_type, payload, converterCalls, oexc, images,
             text_segments, confidences, stringCalls, dataCalls, oresponses>>

SanIdle ==
    /\ smarkdown = <<>>
    /\ sresult = <<>>
    /\ spc = "idle"

RenIdle ==
    /\ rpc = "idle"
    /\ markdown = <<>>
    /\ content_hash = None
    /\ sanitized = <<>>
    /\ tmpExists = FALSE
    /\ tmpContent = <<>>
    /\ engineCalls = 0
    /\ rexc = <<>>
    /\ rresponses = <<>>

\* ------------------------------------------------ sanitize_markdown alone
SanInit ==
    /\ smarkdown \in Texts(Pieces, MaxPieces)
    /\ sresult = <<>>
    /\ spc = "call"

Sanitize ==
    /\ spc = "call"
    /\ sresult' = sanitize_markdown(smarkdown)
    /\ spc' = "returned"
    /\ UNCHANGED smarkdown

\* ------------------------------------------------------- POST /render
\* IsBlank without the strip
IsBlankOnlyEmpty(s) == s = <<>>

\* not s.strip()
IsBlank(s) == strip(s) = <<>>

\* RenderResponse(pdfBase64=..., hash=request.content_hash)
RenderResponse(pdfBase64, hash) ==
    [status |-> 200, pdfBase64 |-> pdfBase64, hash |-> hash, detail |-> None]

\* EngineErrorResponse dropping the message
EngineErrorResponseNoDetail(msg) ==
    [status |-> 500, pdfBase64 |-> <<>>, hash |-> None, detail |-> None]

\* HTTPException(status_code=500, detail=str(exc))
EngineErrorResponse(msg) ==
    [status |-> 500, pdfBase64 |-> <<>>, hash |-> None, detail |-> Some(msg)]

\* an exception no handler catches: the framework answers 500 without detail
UnhandledResponse ==
    [status |-> 500, pdfBase64 |-> <<>>, hash |-> None, detail |-> None]

\* TempFileAfterWith deleting only when the block ends normally
TempFileAfterWithLeak(raised) == raised

\* leaving the with block: the temporary file is closed and deleted,
\* whether the block raised or not
TempFileAfterWith(raised) == FALSE

RenderInit ==
    /\ endpoint = "render"
    /\ rpc = "received"
    /\ markdown \in Texts(RenderPieces, MaxPieces)
    /\ content_hash \in ContentHashes
    /\ sanitized = <<>>
    /\ tmpExists = FALSE
    /\ tmpContent = <<>>
    /\ engineCalls = 0
    /\ rexc = <<>>
    /\ rresponses = <<>>

\* lines 44-45
RenderEmpty ==
    /\ rpc = "received"
    /\ (markdown = <<>> \/ IsBlank(markdown))
    /\ rresponses' = Append(rresponses, RenderResponse(<<>>, content_hash))
    /\ rpc' = "responded"
    /\ UNCHANGED <<markdown, content_hash, sanitized, tmpExists, tmpContent, engineCalls, rexc>>

\* lines 47-49
RenderSanitize ==
    /\ rpc = "received"
    /\ ~(markdown = <<>> \/ IsBlank(markdown))
    /\ sanitized' = sanitize_markdown(markdown)
    /\ IF IsBlank(sanitized')
       THEN /\ rresponses' = Append(rresponses, RenderResponse(<<>>, content_hash))
            /\ rpc' = "responded"
       ELSE /\ rpc' = "validated"
            /\ UNCHANGED rresponses
    /\ UNCHANGED <<markdown, content_hash, tmpExists, tmpContent, engineCalls, rexc>>

\* line 52: with tempfile.NamedTemporaryFile(suffix=".pdf") as pdf_file
RenderOpenTemp ==
    /\ rpc = "validated"
    /\ tmpExists' = TRUE
    /\ tmpContent' = <<>>
    /\ rpc' = "tempfile"
    /\ UNCHANGED <<markdown, content_hash, sanitized, engineCalls, rexc, rresponses>>

\* lines 53-59: convert_text returns, the engine has written the file
RenderConvertReturns ==
    /\ rpc = "tempfile"
    /\ engineCalls' = engineCalls + 1
    /\ \E bytes \in PdfOutputs : tmpContent' = bytes
    /\ rpc' = "converted"
    /\ UNCHANGED <<markdown, content_hash, sanitized, tmpExists, rexc, rresponses>>

\* RenderConvertRuntimeError calling the engine again after a failure
RenderConvertRuntimeErrorRetry ==
    /\ rpc = "tempfile"
    /\ engineCalls < 2
    /\ engineCalls' = engineCalls + 1
    /\ UNCHANGED <<rpc, markdown, content_hash, sanitized, tmpExists, tmpContent,
                   rexc, rresponses>>

\* lines 53-59, 62-63: convert_text raises RuntimeError
RenderConvertRuntimeError ==
    /\ rpc = "tempfile"
    /\ engineCalls' = engineCalls + 1
    /\ tmpExists' = TempFileAfterWith(TRUE)
    /\ \E msg \in EngineMessages :
           /\ rexc' = <<"RuntimeError", msg>>
           /\ rresponses' = Append(rresponses, EngineErrorResponse(msg))
    /\ rpc' = "responded"
    /\ UNCHANGED <<markdown, content_hash, sanitized, tmpContent>>

\* lines 53-59: the call raises an exception that is not a RuntimeError
\* (OSError when the process cannot be started); line 62 does not catch it
RenderConvertOtherError ==
    /\ rpc = "tempfile"
    /\ engineCalls' = engineCalls + 1
    /\ tmpExists' = TempFileAfterWith(TRUE)
    /\ \E msg \in OsMessages : rexc' = <<"OSError", msg>>
    /\ rresponses' = Append(rresponses, UnhandledResponse)
    /\ rpc' = "responded"
    /\ UNCHANGED <<markdown, content_hash, sanitized, tmpContent>>

\* lines 60-61, 65-66: read the file back, leave the with block, respond
RenderReadBack ==
    /\ rpc = "converted"
    /\ tmpExists' = TempFileAfterWith(FALSE)
    /\ rresponses' = Append(rresponses,
                            RenderResponse(b64encode(tmpContent), content_hash))
    /\ rpc' = "responded"
    /\ UNCHANGED <<markdown, content_hash, sanitized, tmpContent, engineCalls, rexc>>

\* lines 60-61: seek or read raises OSError inside the with block
RenderReadFails ==
    /\ rpc = "converted"
    /\ tmpExists' = TempFileAfterWith(TRUE)
    /\ \E msg \in OsMessages : rexc' = <<"OSError", msg>>
    /\ rresponses' = Append(rresponses, UnhandledResponse)
    /\ rpc' = "responded"
    /\ UNCHANGED <<markdown, content_hash, sanitized, tmpContent, engineCalls>>

RenderNext ==
    \/ RenderEmpty
    \/ RenderSanitize
    \/ RenderOpenTemp
    \/ RenderConvertReturns
    \/ RenderConvertRuntimeError
    \/ RenderConvertOtherError
    \/ RenderReadBack
    \/ RenderReadFails

\* --------------------------------------------------- tesseract/app.py
\* exact rationals <<num, den>> with den > 0, kept in lowest terms
RECURSIVE GCD(_, _)
GCD(a, b) == IF b = 0 THEN a ELSE GCD(b, a % b)

Abs(n) == IF n < 0 THEN -n ELSE n

Rat(num, den) ==
    LET g == GCD(Abs(num), den) IN <<num \div g, den \div g>>

RatAdd(a, b) == Rat(a[1] * b[2] + b[1] * a[2], a[2] * b[2])

RatDiv(a, n) == Rat(a[1], a[2] * n)

RECURSIVE RatSum(_)
\* sum(values) over a list of rationals
RatSum(values) ==
    IF values = <<>> THEN <<0, 1>> ELSE RatAdd(Head(values), RatSum(Tail(values)))

\* values of data["conf"]: an int, a str or None
IntVal(n) == [kind |-> "int", num |-> n, str |-> <<>>]
StrVal(s) == [kind |-> "str", num |-> 0, str |-> s]
NoneVal == [kind |-> "none", num |-> 0, str |-> <<>>]

Digits == <<"0","1","2","3","4","5","6","7","8","9">>

IsDigit(c) == \E d \in 1..10 : Digits[d] = c

DigitValue(c) == (CHOOSE d \in 1..10 : Digits[d] = c) - 1

RECURSIVE ParseDigits(_, _)
ParseDigits(s, acc) ==
    IF s = <<>> THEN acc ELSE ParseDigits(Tail(s), acc * 10 + DigitValue(Head(s)))

\* float(value) for an optionally signed decimal integer literal with
\* surrounding whitespace; anything else in the modelled inputs is a ValueError
ParseFloat(s) ==
    LET t == strip(s)
        signed == t # <<>> /\ Head(t) \in {"-", "+"}
        body == IF signed THEN Tail(t) ELSE t
    IN  IF body # <<>> /\ \A k \in 1..Len(body) : IsDigit(body[k])
        THEN [ok |-> TRUE,
              conf |-> IF signed /\ Head(t) = "-"
                       THEN -ParseDigits(body, 0) ELSE ParseDigits(body, 0)]
        ELSE [ok |-> FALSE, conf |-> 0]

\* lines 15-18: float(value), TypeError and ValueError caught
Float(value) ==
    IF value.kind = "int" THEN [ok |-> TRUE, conf |-> value.num]
    ELSE IF value.kind = "str" THEN ParseFloat(value.str)
    ELSE [ok |-> FALSE, conf |-> 0]

\* KeepsConfidence without the sign test
KeepsConfidenceAnySign(value) == Float(value).ok

\* lines 19-20
KeepsConfidence(value) == Float(value).ok /\ Float(value).conf >= 0

RECURSIVE ConfidenceLoop(_, _)
\* lines 13-20
ConfidenceLoop(values, acc) ==
    IF values = <<>> THEN acc
    ELSE IF KeepsConfidence(Head(values))
         THEN ConfidenceLoop(Tail(values), Append(acc, Float(Head(values)).conf))
         ELSE ConfidenceLoop(Tail(values), acc)

RECURSIVE IntSum(_)
IntSum(values) == IF values = <<>> THEN 0 ELSE Head(values) + IntSum(Tail(values))

\* lines 11-23, data being image_to_data(image)["conf"]
_estimate_confidence(data) ==
    LET kept == ConfidenceLoop(data, <<>>)
    IN  IF kept = <<>> THEN <<0, 1>>
        ELSE Rat(IntSum(kept), Len(kept) * 100)

\* round(x, 4) in units of 1/10000: the nearest multiples; an exact tie has
\* two, and which one the float arithmetic yields depends on the binary value
Round4(x) ==
    LET q == (10000 * x[1]) \div x[2]
    IN  { k \in {q, q + 1} : 2 * Abs(k * x[2] - 10000 * x[1]) <= x[2] }

\* per-token confidences the engine reports: -1 for non-text regions,
\* 0..100 for recognised tokens, as int or as str
ConfValues ==
    { IntVal(-1), IntVal(0), IntVal(60), IntVal(80), IntVal(100),
      StrVal(<<"-","1">>), StrVal(<<" ","9","5">>), StrVal(<<"n","/","a">>),
      NoneVal }

Lists(vs, n) == UNION { [1..k -> vs] : k \in 0..n }

\* --------------------------------------------- _estimate_confidence alone
ConfInit ==
    /\ cdata \in Lists(ConfValues, MaxTokens)
    /\ cresult = <<0, 1>>
    /\ cpc = "call"

ConfIdle ==
    /\ cdata = <<>>
    /\ cresult = <<0, 1>>
    /\ cpc = "idle"

EstimateConfidence ==
    /\ cpc = "call"
    /\ cresult' = _estimate_confidence(cdata)
    /\ cpc' = "returned"
    /\ UNCHANGED cdata

\* ---------------------------------------------------------- POST /ocr
\* AcceptedTypes letting images through
AcceptedTypesWithImages ==
    {"application/pdf", "application/octet-stream", "pdf", "image/png"}

\* line 28
AcceptedTypes == {"application/pdf", "application/octet-stream", "pdf"}

ContentTypes == AcceptedTypes \cup {"image/png", "text/plain", ""}

Payloads == { <<>>, <<37, 80, 68, 70>>, <<0>> }

\* str(exc) of the exceptions convert_from_bytes may raise
ConverterMessages == {"Unable to get page count.", "Unable to get page count. Is poppler installed?"}

\* image_to_string results for one page
PageTexts == { <<>>, <<" ", "\f">>, <<"a", "\n", "\f">> }

\* image_to_data(...)["conf"] results for one page
PageConfValues == { IntVal(-1), IntVal(50), IntVal(100) }

OcrError(status, detail) ==
    [status |-> status, text |-> <<>>, confidence |-> <<0, 1>>, pages |-> 0,
     detail |-> Some(detail)]

\* an exception no handler catches: the framework answers 500 without a body
OcrUnhandled ==
    [status |-> 500, text |-> <<>>, confidence |-> <<0, 1>>, pages |-> 0,
     detail |-> None]

\* JSONResponse({"text": ..., "confidence": ..., "pages": ...})
OcrResult(text, confidence, pages) ==
    [status |-> 200, text |-> text, confidence |-> confidence, pages |-> pages,
     detail |-> None]

RECURSIVE StripSegments(_)
\* segment.strip() for segment in text_segments if segment
StripSegments(segments) ==
    IF segments = <<>> THEN <<>>
    ELSE IF Head(segments) # <<>>
         THEN <<strip(Head(segments))>> \o StripSegments(Tail(segments))
         ELSE StripSegments(Tail(segments))

\* line 50
Combined(segments) == strip(join(<<"\n">>, StripSegments(segments)))

\* MeanConfidence without the division by the number of pages
MeanConfidenceSum(cs) == IF cs # <<>> THEN RatSum(cs) ELSE <<0, 1>>

\* line 51
MeanConfidence(cs) ==
    IF cs # <<>> THEN RatDiv(RatSum(cs), Len(cs)) ELSE <<0, 1>>

OcrIdle ==
    /\ opc = "idle"
    /\ content_type = ""
    /\ payload = <<>>
    /\ converterCalls = 0
    /\ oexc = <<>>
    /\ images = 0
    /\ text_segments = <<>>
    /\ confidences = <<>>
    /\ stringCalls = 0
    /\ dataCalls = 0
    /\ oresponses = <<>>

OcrInit ==
    /\ endpoint = "ocr"
    /\ opc = "received"
    /\ content_type \in ContentTypes
    /\ payload \in Payloads
    /\ converterCalls = 0
    /\ oexc = <<>>
    /\ images = 0
    /\ text_segments = <<>>
    /\ confidences = <<>>
    /\ stringCalls = 0
    /\ dataCalls = 0
    /\ oresponses = <<>>

\* lines 28-29
OcrRejectType ==
    /\ opc = "received"
    /\ content_type \notin AcceptedTypes
    /\ oresponses' = Append(oresponses, OcrError(415, <<"Only PDF uploads are supported">>))
    /\ opc' = "responded"
    /\ UNCHANGED <<content_type, payload, converterCalls, oexc, images,
                   text_segments, confidences, stringCalls, dataCalls>>

\* lines 31-33
OcrEmptyPayload ==
    /\ opc = "received"
    /\ content_type \in AcceptedTypes
    /\ payload = <<>>
    /\ oresponses' = Append(oresponses, OcrError(400, <<"Uploaded document was empty">>))
    /\ opc' = "responded"
    /\ UNCHANGED <<content_type, payload, converterCalls, oexc, images,
                   text_segments, confidences, stringCalls, dataCalls>>

\* lines 28-32, both checks pass
OcrAccept ==
    /\ opc = "received"
    /\ content_type \in AcceptedTypes
    /\ payload # <<>>
    /\ opc' = "validated"
    /\ UNCHANGED <<content_type, payload, converterCalls, oexc, images,
                   text_segments, confidences, stringCalls, dataCalls, oresponses>>

\* lines 35-38: convert_from_bytes raises
OcrConvertFails ==
    /\ opc = "validated"
    /\ converterCalls' = converterCalls + 1
    /\ \E msg \in ConverterMessages :
           /\ oexc' = <<msg>>
           /\ oresponses' = Append(oresponses,
                  OcrError(400, <<"Failed to convert PDF to images: ", msg>>))
    /\ opc' = "responded"
    /\ UNCHANGED <<content_type, payload, images, text_segments, confidences,
                   stringCalls, dataCalls>>

\* OcrConvertNoPages answering an empty conversion with a client error
OcrConvertNoPagesRejected ==
    /\ opc = "validated"
    /\ converterCalls' = converterCalls + 1
    /\ images' = 0
    /\ oresponses' = Append(oresponses, OcrError(400, <<"Document has no pages">>))
    /\ opc' = "responded"
    /\ UNCHANGED <<content_type, payload, oexc, text_segments, confidences,
                   stringCalls, dataCalls>>

\* lines 36, 40-41: convert_from_bytes returns an empty list
OcrConvertNoPages ==
    /\ opc = "validated"
    /\ converterCalls' = converterCalls + 1
    /\ images' = 0
    /\ oresponses' = Append(oresponses, OcrResult(<<>>, <<0, 1>>, 0))
    /\ opc' = "responded"
    /\ UNCHANGED <<content_type, payload, oexc, text_segments, confidences,
                   stringCalls, dataCalls>>

\* lines 36, 40, 43-44: convert_from_bytes returns at least one page image
OcrConvertPages ==
    /\ opc = "validated"
    /\ converterCalls' = converterCalls + 1
    /\ \E n \in 1..MaxPages : images' = n
    /\ opc' = "pages"
    /\ UNCHANGED <<content_type, payload, oexc, text_segments, confidences,
                   stringCalls, dataCalls, oresponses>>

\* lines 46-48: one iteration of the loop, both engine calls return
OcrPage ==
    /\ opc = "pages"
    /\ Len(text_segments) < images
    /\ stringCalls' = stringCalls + 1
    /\ dataCalls' = dataCalls + 1
    /\ \E text \in PageTexts : text_segments' = Append(text_segments, text)
    /\ \E data \in Lists(PageConfValues, MaxTokens) :
           confidences' = Append(confidences, _estimate_confidence(data))
    /\ UNCHANGED <<opc, content_type, payload, converterCalls, oexc, images, oresponses>>

\* line 47: image_to_string raises; nothing in the handler catches it
OcrPageStringFails ==
    /\ opc = "pages"
    /\ Len(text_segments) < images
    /\ stringCalls' = stringCalls + 1
    /\ oresponses' = Append(oresponses, OcrUnhandled)
    /\ opc' = "responded"
    /\ UNCHANGED <<content_type, payload, converterCalls, oexc, images,
                   text_segments, confidences, dataCalls>>

\* lines 47-48, 12: image_to_data raises; nothing in the handler catches it
OcrPageDataFails ==
    /\ opc = "pages"
    /\ Len(text_segments) < images
    /\ stringCalls' = stringCalls + 1
    /\ dataCalls' = dataCalls + 1
    /\ \E text \in PageTexts : text_segments' = Append(text_segments, text)
    /\ oresponses' = Append(oresponses, OcrUnhandled)
    /\ opc' = "responded"
    /\ UNCHANGED <<content_type, payload, converterCalls, oexc, images, confidences>>

\* lines 50-59
OcrRespond ==
    /\ opc = "pages"
    /\ Len(text_segments) = images
    /\ \E confidence \in Round4(MeanConfidence(confidences)) :
           oresponses' = Append(oresponses,
                  OcrResult(Combined(text_segments), <<confidence, 10000>>, images))
    /\ opc' = "responded"
    /\ UNCHANGED <<content_type, payload, converterCalls, oexc, images,
                   text_segments, confidences, stringCalls, dataCalls>>

OcrNext ==
    \/ OcrRejectType
    \/ OcrEmptyPayload
    \/ OcrAccept
    \/ OcrConvertFails
    \/ OcrConvertNoPages
    \/ OcrConvertPages
    \/ OcrPage
    \/ OcrPageStringFails
    \/ OcrPageDataFails
    \/ OcrRespond

\* ------------------------------------------------------ specifications
vars == <<sanVars, confVars, endpoint, renVars, ocrVars>>

\* sanitize_markdown applied to every text of the bounded input set
InitSanitize ==
    SanInit /\ ConfIdle /\ endpoint = "none" /\ RenIdle /\ OcrIdle

NextSanitize ==
    Sanitize /\ UNCHANGED <<confVars, endpoint, renVars, ocrVars>>

SpecSanitize == InitSanitize /\ [][NextSanitize]_vars

\* _estimate_confidence applied to every token list of the bounded input set
InitConfidence ==
    ConfInit /\ SanIdle /\ endpoint = "none" /\ RenIdle /\ OcrIdle

NextConfidence ==
    EstimateConfidence /\ UNCHANGED <<sanVars, endpoint, renVars, ocrVars>>

SpecConfidence == InitConfidence /\ [][NextConfidence]_vars

\* one request, sent to /render or to /ocr
Init ==
    /\ SanIdle
    /\ ConfIdle
    /\ \/ RenderInit /\ OcrIdle
       \/ OcrInit /\ RenIdle

Next ==
    \/ RenderNext /\ UNCHANGED <<sanVars, confVars, endpoint, ocrVars>>
    \/ OcrNext /\ UNCHANGED <<sanVars, confVars, endpoint, renVars>>

Spec == Init /\ [][Next]_vars

\* ------------------------------------------------------------- claims

\* C1: sanitize_markdown returns exactly the input lines that contain no
\* blocked token as a case-insensitive substring, in their original order,
\* joined by newlines; every line with a blocked token at any position is
\* dropped and every other line is kept unchanged.
C1_SanitizerKeepsExactlyCleanLines ==
    LET TokenAt(line, t, i) ==
            /\ i + Len(t) - 1 <= Len(line)
            /\ \A k \in 1..Len(t) : LowerChar(line[i + k - 1]) = LowerChar(t[k])
        HasToken(line) ==
            \E n \in 1..Len(BLOCKED_TOKENS) : \E i \in 1..Len(line) :
                TokenAt(line, BLOCKED_TOKENS[n], i)
        Clean(line) == ~HasToken(line)
    IN  spc = "returned" =>
            sresult = join(<<"\n">>, SelectSeq(splitlines(smarkdown), Clean))

\* a text with a mixed-case blocked line before a kept line has been sanitized
C1_Witness ==
    /\ spc = "returned"
    /\ smarkdown = <<"\\", "R", "e", "A", "d", "\r", "x">>
    /\ sresult = <<"x">>

\* C2: a /render request whose markdown is empty, whitespace-only or empty
\* after sanitization is answered 200 with pdfBase64 "" and hash equal to
\* content_hash (absent when absent), and the engine is never invoked.
C2_EmptyRenderReturnsEmptyPdf ==
    LET HasToken(line) ==
            \E n \in 1..Len(BLOCKED_TOKENS) :
                \E i \in 0..(Len(line) - Len(BLOCKED_TOKENS[n])) :
                    \A k \in 1..Len(BLOCKED_TOKENS[n]) :
                        LowerChar(line[i + k]) = LowerChar(BLOCKED_TOKENS[n][k])
        OnlyWhitespace(line) == \A k \in 1..Len(line) : line[k] \in Whitespace
        lines == splitlines(markdown)
        NothingToRender ==
            \A j \in 1..Len(lines) : HasToken(lines[j]) \/ OnlyWhitespace(lines[j])
    IN  (endpoint = "render" /\ NothingToRender) =>
            /\ engineCalls = 0
            /\ ~tmpExists
            /\ rpc = "responded" =>
                   rresponses = << [status |-> 200, pdfBase64 |-> <<>>,
                                    hash |-> content_hash, detail |-> None] >>

\* the single line \write18{rm} with a content hash has been answered
C2_Witness ==
    /\ endpoint = "render"
    /\ rpc = "responded"
    /\ markdown = <<"\\","w","r","i","t","e","1","8","{","r","m","}">>
    /\ content_hash # None
    /\ Len(rresponses) = 1
    /\ rresponses[1].hash = content_hash

\* C3: once a /render request that reached the engine has finished, its
\* temporary output file no longer exists, whether the engine succeeded,
\* raised RuntimeError or any other exception was raised in the with block.
C3_TempFileDeletedOnEveryExit ==
    (endpoint = "render" /\ rpc = "responded") => ~tmpExists

\* a request whose engine call raised RuntimeError has finished
C3_Witness ==
    /\ endpoint = "render"
    /\ rpc = "responded"
    /\ engineCalls = 1
    /\ rexc # <<>>
    /\ rexc[1] = "RuntimeError"
    /\ ~tmpExists

C5_OcrRejections ==
    LET pdfType == content_type \in {"application/pdf", "application/octet-stream", "pdf"}
        NoRecognition == stringCalls = 0 /\ dataCalls = 0
        Answered(status) ==
            opc = "responded" => (Len(oresponses) = 1 /\ oresponses[1].status = status)
    IN  endpoint = "ocr" =>
            /\ ~pdfType => (Answered(415) /\ converterCalls = 0 /\ NoRecognition)
            /\ (pdfType /\ payload = <<>>) =>
                   (Answered(400) /\ converterCalls = 0 /\ NoRecognition)
            /\ (pdfType /\ payload # <<>> /\ oexc # <<>>) =>
                   /\ NoRecognition
                   /\ Len(oresponses) = 1
                   /\ oresponses[1].status = 400
                   /\ \E d \in oresponses[1].detail : d[Len(d)] = oexc[1]

\* a PDF upload whose conversion raised has been answered
C5_Witness ==
    /\ endpoint = "ocr"
    /\ opc = "responded"
    /\ content_type = "application/pdf"
    /\ payload # <<>>
    /\ oexc = <<"Unable to get page count.">>
    /\ oresponses[1].status = 400

\* C6: an accepted, non-empty upload whose conversion succeeds with zero
\* pages is answered with {text: "", confidence: 0.0, pages: 0}, not with
\* an error, and the recognition engine is not invoked.
C6_ZeroPagesIsZeroResult ==
    (/\ endpoint = "ocr"
     /\ opc = "responded"
     /\ converterCalls = 1
     /\ oexc = <<>>
     /\ images = 0) =>
        /\ Len(oresponses) = 1
        /\ oresponses[1].status = 200
        /\ oresponses[1].text = <<>>
        /\ oresponses[1].confidence[1] = 0
        /\ oresponses[1].pages = 0
        /\ stringCalls = 0
        /\ dataCalls = 0

\* a conversion that returned no page has been answered
C6_Witness ==
    /\ endpoint = "ocr"
    /\ opc = "responded"
    /\ converterCalls = 1
    /\ oexc = <<>>
    /\ images = 0
    /\ payload # <<>>
    /\ Len(oresponses) = 1

\* C7: _estimate_confidence is the sum of the numeric, non-negative values
\* divided by (their count times 100), and 0 when there is none; negative
\* and non-numeric values change neither the sum nor the count.
C7_ConfidenceIsFilteredAverage ==
    LET Numeric(v) ==
            \/ v.kind = "int"
            \/ v.kind = "str" /\ v.str \in { <<"-","1">>, <<" ","9","5">> }
        Number(v) ==
            IF v.kind = "int" THEN v.num
            ELSE IF v.str = <<"-","1">> THEN -1 ELSE 95
        Usable == { i \in 1..Len(cdata) : Numeric(cdata[i]) /\ Number(cdata[i]) >= 0 }
        Total[S \in SUBSET (1..Len(cdata))] ==
            IF S = {} THEN 0
            ELSE LET i == CHOOSE j \in S : TRUE
                 IN  Number(cdata[i]) + Total[S \ {i}]
    IN  cpc = "returned" =>
            IF Usable = {}
            THEN cresult[1] = 0
            ELSE cresult[1] * (Cardinality(Usable) * 100) = Total[Usable] * cresult[2]

\* the token list [80, -1, 60] has been averaged to 0.7
C7_Witness ==
    /\ cpc = "returned"
    /\ cdata = <<IntVal(80), IntVal(-1), IntVal(60)>>
    /\ cresult = <<7, 10>>

\* C8: the text of the /ocr result is the trimmed page texts joined by
\* single newlines in page order; a page whose text is empty or only
\* whitespace contributes neither text nor a separator.
C8_BlankPagesContributeNothing ==
    LET Trimmed == [i \in 1..Len(text_segments) |-> strip(text_segments[i])]
        NonBlank(t) == t # <<>>
    IN  (/\ endpoint = "ocr"
         /\ opc = "responded"
         /\ Len(oresponses) = 1
         /\ oresponses[1].status = 200) =>
            oresponses[1].text = join(<<"\n">>, SelectSeq(Trimmed, NonBlank))

\* C9 as stated: the confidence of a result lies in [0,1], equals the mean
\* over all pages of the per-page confidence, and pages is the number of
\* page images the converter produced.
C9_ConfidenceIsExactMean ==
    LET r == oresponses[1]
        total == RatSum(confidences)
    IN  (/\ endpoint = "ocr"
         /\ opc = "responded"
         /\ Len(oresponses) = 1
         /\ oresponses[1].status = 200) =>
            /\ 0 <= r.confidence[1]
            /\ r.confidence[1] <= r.confidence[2]
            /\ r.pages = images
            /\ Len(confidences) = images
            /\ images > 0 =>
                   r.confidence[1] * total[2] * images = total[1] * r.confidence[2]

\* C9 amended: the confidence of a result lies in [0,1], is the mean over
\* all pages of the per-page confidence rounded to 4 decimal places (0 when
\* there is no page), and pages is the number of page images.
C9_ConfidenceIsRoundedMean ==
    LET r == oresponses[1]
        total == RatSum(confidences)
        \* r.confidence = k / 10000 ;  mean = total[1] / (total[2] * images)
        k == r.confidence[1]
        den == total[2] * images
    IN  (/\ endpoint = "ocr"
         /\ opc = "responded"
         /\ Len(oresponses) = 1
         /\ oresponses[1].status = 200) =>
            /\ 0 <= r.confidence[1]
            /\ r.confidence[1] <= r.confidence[2]
            /\ r.pages = images
            /\ Len(confidences) = images
            /\ images = 0 => r.confidence[1] = 0
            /\ images > 0 =>
                   /\ r.confidence[2] = 10000
                   /\ 2 * (k * den - 10000 * total[1]) <= den
                   /\ 2 * (10000 * total[1] - k * den) <= den

\* three pages with confidences 1, 0, 0 have been answered 0.3333
C9_Witness ==
    /\ endpoint = "ocr"
    /\ opc = "responded"
    /\ images = 3
    /\ confidences = << <<1, 1>>, <<0, 1>>, <<0, 1>> >>
    /\ Len(oresponses) = 1
    /\ oresponses[1].confidence = <<3333, 10000>>
    /\ oresponses[1].pages = 3

\* C10: a request moves once through Received, Validated, Processed,
\* Responded with early exit for empty or invalid input; the document engine
\* and the page converter are invoked at most once and only after validation
\* passed; nothing is retried and nothing happens after the response; there
\* is at most one response; a failure while recognising a page of an /ocr
\* request ends the request with an error that carries no partial result.
C10_SinglePassNoRetry ==
    [][LET Rank(pc) ==
               CASE pc = "idle" -> 0
                 [] pc = "received" -> 0
                 [] pc = "validated" -> 1
                 [] pc \in {"tempfile", "converted", "pages"} -> 2
                 [] pc = "responded" -> 3
           Forward(a, b) == b = a \/ b = a + 1 \/ b = 3
       IN  /\ Rank(rpc) < 3 /\ Rank(opc) < 3
           /\ Forward(Rank(rpc), Rank(rpc'))
           /\ Forward(Rank(opc), Rank(opc'))
           /\ engineCalls' # engineCalls =>
                  /\ engineCalls = 0 /\ engineCalls' = 1
                  /\ Rank(rpc) >= 1
                  /\ strip(markdown) # <<>>
                  /\ strip(sanitized) # <<>>
           /\ converterCalls' # converterCalls =>
                  /\ converterCalls = 0 /\ converterCalls' = 1
                  /\ Rank(opc) >= 1
                  /\ content_type \in {"application/pdf", "application/octet-stream", "pdf"}
                  /\ payload # <<>>
           /\ Len(rresponses') = (IF rpc' = "responded" THEN 1 ELSE 0)
           /\ Len(oresponses') = (IF opc' = "responded" THEN 1 ELSE 0)
           /\ (opc = "pages" /\ opc' = "responded" /\ Len(confidences') < images) =>
                  /\ oresponses'[1].status = 500
                  /\ oresponses'[1].text = <<>>
                  /\ oresponses'[1].pages = 0
      ]_vars

\* the second page of a three-page upload failed after the first was recognised
C10_Witness ==
    /\ endpoint = "ocr"
    /\ opc = "responded"
    /\ images = 3
    /\ Len(confidences) = 1
    /\ text_segments[1] # <<>>
    /\ converterCalls = 1
    /\ Len(oresponses) = 1
    /\ oresponses[1].status = 500

====
